---- MODULE Spec2Model ----
(***************************************************************************)
(* Model of the hidden-order group layer of gottstech/accumulator:         *)
(*   src/src/group/rsa3x5.rs  (Rsa3x5: modulus 15, elements mod {+1,-1})   *)
(*   src/src/group/rsa100.rs  (same code text over the RSA-100 modulus)    *)
(*   src/src/group/mod.rs     (Inverse::pow_signed)                        *)
(* An element Rsa3x5Elem(v) is modelled by its wrapped integer v.          *)
(***************************************************************************)
EXTENDS Integers, Sequences, FiniteSets, TLC

\* ------------------------------------------------------------------ bounds
\* elem is applied to every integer t with -MaxInput <= t <= MaxInput
MaxInput == 16
\* exp is applied to every exponent up to MaxExp ...
MaxExp == 12
\* ... and down to -MaxNegExp
MaxNegExp == 2
\* pow_signed is applied to every exponent e with -MaxSigned <= e <= MaxSigned
MaxSigned == 3
\* number of threads racing on the lazily initialised statics
NumThreads == 3

\* ------------------------------------------------- big-integer primitives
Abs(n) == IF n < 0 THEN -n ELSE n

\* Integer::from_str on a decimal string, given as its digits
RECURSIVE from_str(_)
from_str(digits) ==
    IF digits = << >> THEN 0
    ELSE 10 * from_str(SubSeq(digits, 1, Len(digits) - 1)) + digits[Len(digits)]

\* rug's `%` on Integer: remainder of the truncating division, so the
\* result carries the sign of the dividend
Rem(n, d) == IF n >= 0 THEN n % d ELSE -((-n) % d)

\* rug's div_rem_euc(..).1: the Euclidean remainder, always in [0, d)
rem_euc(n, d) == n % d

\* the result of a call that may panic on unwrap()
Some(v) == [ok |-> TRUE, v |-> v]
None == [ok |-> FALSE, v |-> 0]

\* extended Euclid on non-negative a, b: <<g, s>> with s*a = g (mod b)
RECURSIVE gcdext(_, _)
gcdext(a, b) ==
    IF b = 0 THEN <<a, 1, 0>>
    ELSE LET r == gcdext(b, a % b)
         IN  <<r[1], r[3], r[2] - (a \div b) * r[3]>>

\* invert without the gcd test: a value comes back for a non-unit too
invert_unchecked(v, m) ==
    LET r == gcdext(Abs(v), m)
        s == IF v < 0 THEN -r[2] ELSE r[2]
    IN  Some(s % m)

\* rug's invert_ref: the inverse in [0, m) when gcd(v, m) = 1, else None
invert(v, m) ==
    LET r == gcdext(Abs(v), m)
        s == IF v < 0 THEN -r[2] ELSE r[2]
    IN  IF r[1] # 1 THEN None ELSE Some(s % m)

\* GMP's powm for a non-negative exponent: square and multiply, result in [0, m)
RECURSIVE powm(_, _, _)
powm(b, n, m) ==
    IF n = 0 THEN 1 % m
    ELSE IF n % 2 = 0
         THEN LET h == powm(b, n \div 2, m) IN (h * h) % m
         ELSE (b * powm(b, n - 1, m)) % m

\* rug's pow_mod_ref: a negative exponent needs the inverse of the base
pow_mod(b, n, m) ==
    IF n >= 0 THEN Some(powm(b, n, m))
    ELSE LET i == invert(b, m)
         IN  IF i.ok THEN Some(powm(i.v, -n, m)) ELSE None

\* ------------------------------------------------------------- the group
RSA3X5_MODULUS_DECIMAL == <<1, 5>>
RSA3X5_MODULUS == from_str(RSA3X5_MODULUS_DECIMAL)
HALF_MODULUS == RSA3X5_MODULUS \div 2

rep == RSA3X5_MODULUS

\* elem with the comparison against the half modulus off by one
elem_ge(t) ==
    LET modulus == rep
        val == Rem(t, modulus)
    IN  IF val >= HALF_MODULUS THEN rem_euc(-val, modulus) ELSE val

\* ElemFrom::elem
elem(t) ==
    LET modulus == rep
        val == Rem(t, modulus)
    IN  IF val > HALF_MODULUS THEN rem_euc(-val, modulus) ELSE val

id_ == elem(1)

op_(modulus, a, b) == elem(Rem(a * b, modulus))

\* unwrap() panics on None: the call returns no element
exp_(modulus, x, n) ==
    LET r == pow_mod(x, n, modulus)
    IN  IF r.ok THEN Some(elem(r.v)) ELSE None

inv_(modulus, x) ==
    LET r == invert(x, modulus)
    IN  IF r.ok THEN Some(elem(r.v)) ELSE None

unknown_order_elem_ == elem(2)

\* --------------------------------------------------- Inverse::pow_signed
\* to_biguint that treats zero like a negative value
to_biguint_positive(e) == IF e > 0 THEN Some(e) ELSE None

\* BigInt::to_biguint: Some for zero and positive values, None for negative
to_biguint(e) == IF e >= 0 THEN Some(e) ELSE None

\* Pow::pow, realised by the group's exp
pow(x, e) == exp_(rep, x, e)

\* Inverse::efficient_inverse: x^(-e) as inv(pow(x, e))
efficient_inverse(x, e) ==
    LET p == pow(x, e)
    IN  IF p.ok THEN inv_(rep, p.v) ELSE None

\* the delegated calls pow_signed makes, and the value it returns
pow_signed(x, e) ==
    LET value == to_biguint(e)
    IN  IF value.ok
        THEN [calls |-> <<[fn |-> "pow", arg |-> value.v]>>,
              res |-> pow(x, value.v)]
        ELSE [calls |-> <<[fn |-> "efficient_inverse", arg |-> to_biguint(-e).v]>>,
              res |-> efficient_inverse(x, to_biguint(-e).v)]

\* ------------------------------------------------------------------ state
VARIABLES
    x, y,      \* the two elements most recently built by elem: [v, src]
    z,         \* the element most recently returned by a group operation
    last,      \* the last call: its name, operands, outcome, delegated calls
    once,      \* per lazy static: state of its std::sync::Once
    cell,      \* per lazy static: the stored value, 0 while unset
    runs,      \* per lazy static: how many times its initializer ran
    pc,        \* per thread: position in the group operation it performs
    frames,    \* per thread: stack of the Lazy::get calls it is inside
    seen       \* per thread and static: the values it has read so far

vars == <<x, y, z, last, once, cell, runs, pc, frames, seen>>
gvars == <<x, y, z, last>>
lvars == <<once, cell, runs, pc, frames, seen>>

Inputs == (-MaxInput)..MaxInput
Exponents == ((-MaxNegExp)..MaxExp) \cup {4096}
SignedExponents == (-MaxSigned)..MaxSigned

Call(name, a, b, n, ok, calls) ==
    [name |-> name, a |-> a, b |-> b, n |-> n, ok |-> ok, calls |-> calls]

Statics == {"MODULUS", "HALF"}
Threads == 1..NumThreads

InitLazy ==
    /\ once = [s \in Statics |-> "INCOMPLETE"]
    /\ cell = [s \in Statics |-> 0]
    /\ runs = [s \in Statics |-> 0]
    /\ pc = [t \in Threads |-> "start"]
    /\ frames = [t \in Threads |-> << >>]
    /\ seen = [t \in Threads |-> [s \in Statics |-> {}]]

\* no element exists before the first call; the registers start as id()
Init ==
    /\ x = [v |-> id_, src |-> 1]
    /\ y = [v |-> id_, src |-> 1]
    /\ z = id_
    /\ last = Call("id", 0, 0, 0, TRUE, << >>)
    /\ InitLazy

\* ---------------------------------------------------------------- actions
ElemFrom(t) ==
    /\ x' = y
    /\ y' = [v |-> elem(t), src |-> t]
    /\ last' = Call("elem", t, 0, 0, TRUE, << >>)
    /\ UNCHANGED <<z, lvars>>

Id ==
    /\ z' = id_
    /\ last' = Call("id", 0, 0, 0, TRUE, << >>)
    /\ UNCHANGED <<x, y, lvars>>

UnknownOrderElem ==
    /\ z' = unknown_order_elem_
    /\ last' = Call("unknown_order_elem", 0, 0, 0, TRUE, << >>)
    /\ UNCHANGED <<x, y, lvars>>

\* op on the two constructed elements, or on y and the last result
Op(acc) ==
    LET a == IF acc THEN y.v ELSE x.v
        b == IF acc THEN z ELSE y.v
    IN  /\ z' = op_(rep, a, b)
        /\ last' = Call(IF acc THEN "op_acc" ELSE "op", a, b, 0, TRUE, << >>)
        /\ UNCHANGED <<x, y, lvars>>

\* a panicking call returns no element: z keeps its value
Exp(n) ==
    LET a == y.v
        r == exp_(rep, a, n)
    IN  /\ z' = IF r.ok THEN r.v ELSE z
        /\ last' = Call("exp", a, 0, n, r.ok, << >>)
        /\ UNCHANGED <<x, y, lvars>>

Inv ==
    LET a == y.v
        r == inv_(rep, a)
    IN  /\ z' = IF r.ok THEN r.v ELSE z
        /\ last' = Call("inv", a, 0, 0, r.ok, << >>)
        /\ UNCHANGED <<x, y, lvars>>

PowSigned(e) ==
    LET a == y.v
        r == pow_signed(a, e)
    IN  /\ z' = IF r.res.ok THEN r.res.v ELSE z
        /\ last' = Call("pow_signed", a, 0, e, r.res.ok, r.calls)
        /\ UNCHANGED <<x, y, lvars>>

Next ==
    \/ \E t \in Inputs : ElemFrom(t)
    \/ Id
    \/ UnknownOrderElem
    \/ \E acc \in BOOLEAN : Op(acc)
    \/ \E n \in Exponents : Exp(n)
    \/ Inv
    \/ \E e \in SignedExponents : PowSigned(e)

Spec == Init /\ [][Next]_vars

\* ------------------------------------------- lazily initialised statics
\* lazy_static! { RSA3X5_MODULUS; HALF_MODULUS }: each static is a cell
\* guarded by a std::sync::Once; a thread reaches both from elem.
Frame(s) == [s |-> s, step |-> "load", val |-> 0]

Top(t) == frames[t][Len(frames[t])]
SetTop(t, f) == [frames EXCEPT ![t] = [@ EXCEPT ![Len(@)] = f]]
AtStep(t, step) == frames[t] # << >> /\ Top(t).step = step

\* a plain store in place of the compare_exchange
CasAlways(cur) == TRUE

\* Once::call_once claims the initialisation by compare_exchange
CasSucceeds(cur) == cur = "INCOMPLETE"

\* elem line 1: let modulus = Self::rep()
StartOp(t) ==
    /\ pc[t] = "start"
    /\ pc' = [pc EXCEPT ![t] = "rep"]
    /\ frames' = [frames EXCEPT ![t] = <<Frame("MODULUS")>>]
    /\ UNCHANGED <<gvars, once, cell, runs, seen>>

\* elem line 3: val > *HALF_MODULUS
Half(t) ==
    /\ pc[t] = "rep" /\ frames[t] = << >>
    /\ pc' = [pc EXCEPT ![t] = "half"]
    /\ frames' = [frames EXCEPT ![t] = <<Frame("HALF")>>]
    /\ UNCHANGED <<gvars, once, cell, runs, seen>>

\* the operation returns; the thread goes on to its next operation
Finish(t) ==
    /\ pc[t] = "half" /\ frames[t] = << >>
    /\ pc' = [pc EXCEPT ![t] = "start"]
    /\ UNCHANGED <<gvars, once, cell, runs, frames, seen>>

\* call_once loads the state; a thread that finds RUNNING parks
Load(t) ==
    /\ AtStep(t, "load")
    /\ once[Top(t).s] # "RUNNING"
    /\ frames' = SetTop(t, [Top(t) EXCEPT !.step =
                     IF once[Top(t).s] = "COMPLETE" THEN "read" ELSE "cas"])
    /\ UNCHANGED <<gvars, once, cell, runs, pc, seen>>

Cas(t) ==
    /\ AtStep(t, "cas")
    /\ IF CasSucceeds(once[Top(t).s])
       THEN /\ once' = [once EXCEPT ![Top(t).s] = "RUNNING"]
            /\ frames' = SetTop(t, [Top(t) EXCEPT !.step = "init"])
       ELSE /\ frames' = SetTop(t, [Top(t) EXCEPT !.step = "load"])
            /\ UNCHANGED once
    /\ UNCHANGED <<gvars, cell, runs, pc, seen>>

\* the initializer: parse the decimal modulus, or read the modulus to halve it
RunInit(t) ==
    /\ AtStep(t, "init")
    /\ runs' = [runs EXCEPT ![Top(t).s] = @ + 1]
    /\ IF Top(t).s = "MODULUS"
       THEN frames' = SetTop(t, [Top(t) EXCEPT !.step = "store",
                                    !.val = from_str(RSA3X5_MODULUS_DECIMAL)])
       ELSE frames' = [frames EXCEPT ![t] =
                         Append([@ EXCEPT ![Len(@)].step = "dep"], Frame("MODULUS"))]
    /\ UNCHANGED <<gvars, once, cell, pc, seen>>

\* RSA3X5_MODULUS.clone() / 2
Halve(t) ==
    /\ AtStep(t, "halve")
    /\ frames' = SetTop(t, [Top(t) EXCEPT !.step = "store", !.val = @ \div 2])
    /\ UNCHANGED <<gvars, once, cell, runs, pc, seen>>

\* self.0.set(Some(f()))
Store(t) ==
    /\ AtStep(t, "store")
    /\ cell' = [cell EXCEPT ![Top(t).s] = Top(t).val]
    /\ frames' = SetTop(t, [Top(t) EXCEPT !.step = "complete"])
    /\ UNCHANGED <<gvars, once, runs, pc, seen>>

Complete(t) ==
    /\ AtStep(t, "complete")
    /\ once' = [once EXCEPT ![Top(t).s] = "COMPLETE"]
    /\ frames' = SetTop(t, [Top(t) EXCEPT !.step = "read"])
    /\ UNCHANGED <<gvars, cell, runs, pc, seen>>

\* Lazy::get reads the cell and returns to its caller
Read(t) ==
    /\ AtStep(t, "read")
    /\ LET s == Top(t).s
           v == cell[s]
           rest == SubSeq(frames[t], 1, Len(frames[t]) - 1)
       IN  /\ seen' = [seen EXCEPT ![t][s] = @ \cup {v}]
           /\ frames' = [frames EXCEPT ![t] =
                 IF rest = << >> THEN rest
                 ELSE [rest EXCEPT ![Len(rest)].step = "halve", ![Len(rest)].val = v]]
    /\ UNCHANGED <<gvars, once, cell, runs, pc>>

NextLazy ==
    \E t \in Threads :
        \/ StartOp(t)
        \/ Half(t)
        \/ Finish(t)
        \/ Load(t)
        \/ Cas(t)
        \/ RunInit(t)
        \/ Halve(t)
        \/ Store(t)
        \/ Complete(t)
        \/ Read(t)

SpecLazy == Init /\ [][NextLazy]_vars

\* ================================================================ claims
\* the n-fold composition of x with itself under op: id() for n = 0
RECURSIVE NFold(_, _)
NFold(a, n) ==
    IF n = 0 THEN id_
    ELSE IF n = 1 THEN a
    ELSE op_(rep, NFold(a, n - 1), a)

Divides(d, n) == n % d = 0
Gcd(a, b) ==
    CHOOSE d \in 1..b :
        /\ Divides(d, a) /\ Divides(d, b)
        /\ \A e \in 1..b : Divides(e, a) /\ Divides(e, b) => e <= d

\* the representative in [0, 7] of the coset {r, -r} modulo 15
Canonical(r) == IF r % 15 > 7 THEN 15 - (r % 15) ELSE r % 15

\* C1: every element that exists holds an integer v with 0 <= v <= floor(15/2)
C1_AllCanonical ==
    /\ x.v \in 0..(15 \div 2)
    /\ y.v \in 0..(15 \div 2)
    /\ z \in 0..(15 \div 2)

\* C2: for every integer t, elem(t) == elem(M - t) and elem(t) == elem(-t)
C2_CosetIdentity ==
    last.name = "elem" =>
        /\ y.v = elem(15 - y.src)
        /\ y.v = elem(-y.src)

\* C3: op(elem(s), elem(t)) == elem(s * t), the canonical form of
\* (a.v * b.v) mod M
C3_OpIsMultiplication ==
    last.name = "op" =>
        /\ z = elem(x.src * y.src)
        /\ z = Canonical(x.v * y.v)

\* C4: op(op(a, b), c) == op(a, op(b, c)) for all elements a, b, c
C4_Associative ==
    op_(rep, op_(rep, x.v, y.v), z) = op_(rep, x.v, op_(rep, y.v, z))

\* C5: op(a, inv(a)) == id() for every element a that inv accepts
C5_InverseAxiom ==
    (last.name = "inv" /\ last.ok) => op_(rep, last.a, z) = id_

\* C6: inv(x) aborts without returning an element exactly when
\* gcd(x.v, M) # 1, and for a unit it returns an inverse of x.v up to sign
C6_InvFailsExactlyOnNonUnits ==
    last.name = "inv" =>
        /\ (~last.ok) <=> (Gcd(Abs(last.a), 15) # 1)
        /\ last.ok => (last.a * z) % 15 \in {1, 14}

C6_Witness ==
    /\ last.name = "inv" /\ ~last.ok
    /\ y.src = 6 /\ last.a = 6

\* C7: exp(x, n) is the n-fold composition of x under op for 0 <= n <= 12;
\* exp(elem(2), 3) == elem(8) and exp(elem(2), 4096) == elem(1)
C7_ExpIsNFold ==
    last.name = "exp" =>
        /\ last.n \in 0..12 => (last.ok /\ z = NFold(last.a, last.n))
        /\ (y.src = 2 /\ last.n = 3) => (last.ok /\ z = elem(8))
        /\ (y.src = 2 /\ last.n = 4096) => (last.ok /\ z = elem(1))

\* C8: pow_signed(x, e) makes exactly one delegated call, pow(x, e) when
\* e >= 0 and efficient_inverse(x, |e|) when e < 0, and returns its result;
\* for e = 0 the result is the identity
C8_PowSignedBranch ==
    last.name = "pow_signed" =>
        LET e == last.n
            r == IF e >= 0 THEN pow(last.a, e) ELSE efficient_inverse(last.a, -e)
        IN  /\ Len(last.calls) = 1
            /\ last.calls[1] = [fn |-> IF e >= 0 THEN "pow" ELSE "efficient_inverse",
                                arg |-> Abs(e)]
            /\ last.ok = r.ok
            /\ last.ok => z = r.v
            /\ e = 0 => (last.ok /\ z = 1)

C8_Witness ==
    /\ last.name = "pow_signed" /\ last.n = 0
    /\ last.calls = <<[fn |-> "pow", arg |-> 0]>>
    /\ y.v = 4 /\ z = 1

\* C9: elem(elem(t).value) == elem(t) for every integer t
C9_ElemIdempotent ==
    last.name = "elem" => elem(y.v) = y.v

C9_Witness ==
    /\ last.name = "elem"
    /\ y.src = -12 /\ x.src = 12 /\ x.v = 3

\* C10: each initializer runs at most once, and every read by every thread
\* observes the modulus 15 and the half modulus 7
C10_OneTimeInit ==
    /\ \A s \in Statics : runs[s] <= 1
    /\ \A t \in Threads :
        /\ seen[t]["MODULUS"] \subseteq {15}
        /\ seen[t]["HALF"] \subseteq {7}

C10_Witness ==
    /\ \A s \in Statics : runs[s] = 1
    /\ \A t \in Threads : seen[t]["MODULUS"] = {15} /\ seen[t]["HALF"] = {7}
    /\ \E t \in Threads : pc[t] = "start"

====
